---- MODULE Spec2Model ----
(***************************************************************************)
(* Model of rust/ittapi/src/domain.rs: the Domain handle, Domain::new,     *)
(* Domain::as_ptr and the Sync marker.  Threads run Domain::new statement  *)
(* by statement, read handles through as_ptr and drop the handles they     *)
(* own; the native library is the environment of the foreign call.         *)
(***************************************************************************)
EXTENDS Integers, Sequences, FiniteSets, TLC

VARIABLES
    target,     \* the build target family: cfg(unix) or cfg(windows)
    libInit,    \* whether the native ittnotify library is initialized
    pc,         \* pc[t]: the statement thread t is at
    name,       \* name[t]: the &str argument of the running Domain::new
    create_fn,  \* create_fn[t]: the local create_fn (line 25/27)
    buf,        \* buf[t]: the heap buffer owned by the local c_string
    domain,     \* domain[t]: the local domain (line 30)
    arg,        \* arg[t]: the bytes the native function finds at its argument
    self,       \* self[t]: the handle thread t borrows in as_ptr (0: none)
    acc,        \* acc[t]: how t touches the borrowed handle's field
    ncalls,     \* ncalls[t]: foreign calls made by the running Domain::new
    panic,      \* panic[t]: the payload thread t panicked with
    last,       \* what the as_ptr call that returned last gave back
    handles,    \* every Domain value constructed so far
    calls       \* the native function of every foreign call made so far

vars == <<target, libInit, pc, name, create_fn, buf, arg, domain, self, acc,
          ncalls, panic, last, handles, calls>>

----------------------------------------------------------------------------
\* Bounds of the model.
NumThreads == 2
MaxLen == 2
MaxCreates == 2
MaxAddr == 2

Threads == 1..NumThreads

\* Bytes of a name: 0 is the terminator byte, 1 stands for any other byte.
Bytes == {0, 1}

RECURSIVE SeqsUpTo(_)
SeqsUpTo(n) ==
    IF n = 0 THEN {<<>>}
    ELSE LET S == SeqsUpTo(n - 1)
         IN  S \cup {Append(s, b) : s \in {x \in S : Len(x) = n - 1}, b \in Bytes}

\* The &str values a caller may pass (a Rust str may hold 0 bytes).
Names == SeqsUpTo(MaxLen)

\* Addresses the native library may hand back; 0 is the null pointer.
NULL == 0
Addrs == 0..MaxAddr

\* *mut __itt_domain: an address together with the pointer type's mutability.
MutPtr(a) == [addr |-> a, mut |-> TRUE]

\* The two function table slots named by Domain::new.
UnixEntry == "__itt_domain_create_ptr__3_0"
WindowsEntry == "__itt_domain_createA_ptr__3_0"

Targets == {"unix", "windows"}

NoBuf == [bytes |-> <<>>, live |-> FALSE]
NoRet == [h |-> 0, ptr |-> [addr |-> -1, mut |-> FALSE]]
NoPanic == [msg |-> "none"]
NoArg == <<>>
NoFn == [entry |-> "none"]
NoPtr == [addr |-> -1, mut |-> TRUE]

\* Mutant: .unwrap() in place of .expect(..): the standard library's text.
UnwrapMsg == "called Result::unwrap() on an Err value"

\* The text .expect(..) panics with (line 29).
ExpectMsg == "unable to create a CString; does it contain a 0 byte?"

\* The text tests::zero_byte expects the panic to carry (line 52).
ZeroByteExpected == "unable to create a CString; does it contain a 0 byte?"

----------------------------------------------------------------------------
\* Domain::new, statement by statement.

\* Mutant: the entry point is picked from the name at run time.
CreateFnNameByName(tg, nm) ==
    IF Len(nm) = 0 THEN UnixEntry
    ELSE IF tg = "unix" THEN UnixEntry ELSE WindowsEntry

\* #[cfg(unix)] / #[cfg(windows)]: the slot compiled into this build.
CreateFnName(tg, nm) ==
    IF tg = "unix" THEN UnixEntry ELSE WindowsEntry

\* access_sys_fn!: the callable stored in the named function table slot.
AccessSysFn(slot) == [entry |-> slot]

\* memchr(0, bytes): the first position holding a 0 byte, 0 when there is none.
RECURSIVE MemChr0(_, _)
MemChr0(s, i) ==
    IF i > Len(s) THEN 0
    ELSE IF s[i] = 0 THEN i
    ELSE MemChr0(s, i + 1)

\* Mutant: the conversion cuts the name at its first 0 byte (C string habit).
CStringNewTruncating(nm) ==
    LET p == MemChr0(nm, 1)
    IN  IF p = 0 THEN [ok |-> TRUE, bytes |-> Append(nm, 0)]
        ELSE [ok |-> TRUE, bytes |-> Append(SubSeq(nm, 1, p - 1), 0)]

\* Mutant: the conversion also rejects the empty name.
CStringNewRejectEmpty(nm) ==
    LET p == MemChr0(nm, 1)
    IN  IF p = 0 /\ Len(nm) > 0 THEN [ok |-> TRUE, bytes |-> Append(nm, 0)]
        ELSE [ok |-> FALSE, err |-> [nul_position |-> p, bytes |-> nm]]

\* CString::new(name): Err(NulError(pos, bytes)) on an interior 0 byte,
\* otherwise the bytes followed by one terminator.
CStringNew(nm) ==
    LET p == MemChr0(nm, 1)
    IN  IF p = 0 THEN [ok |-> TRUE, bytes |-> Append(nm, 0)]
        ELSE [ok |-> FALSE, err |-> [nul_position |-> p - 1, bytes |-> nm]]

\* Mutant: the CString is a temporary, dropped at the end of its statement.
CStringDropTemporary == "l29"

\* The statement after which the binding c_string goes out of scope.
CStringDropPc == "l31"

\* Mutant: a null result makes the call be issued again.
AfterNativeReturnRetry(p) == IF p.addr = NULL THEN "l30" ELSE "l31"

\* After the foreign call returns, control goes on to Self(domain).
AfterNativeReturn(p) == "l31"

\* Mutant: a null result is reported as an error.
SelfCtorNullCheck(p) ==
    IF p.addr = NULL THEN [kind |-> "panic", msg |-> "null domain"]
    ELSE [kind |-> "handle", ptr |-> p]

\* Self(domain): the pointer is wrapped as it is.
SelfCtor(p) == [kind |-> "handle", ptr |-> p]

\* What the native library may return: inert values while it is not
\* initialized, any address (null included) when it is.
NativeResults(init) == IF init THEN Addrs ELSE {NULL, 1}

\* Creates still allowed to start (the bound of the model): those that have
\* made their foreign call, plus those before it or aborted before it.
NotCalled == {t \in Threads : pc[t] \in {"l30", "panicked", "dead"}}
CanStart == Len(calls) + Cardinality(NotCalled) < MaxCreates

\* Lines 23-29: entry into Domain::new, the choice of create_fn and
\* CString::new(name).expect(..); all of it local to the calling thread.
NewEnter(t, nm) ==
    /\ pc[t] = "idle"
    /\ CanStart
    /\ name' = [name EXCEPT ![t] = nm]
    /\ create_fn' = [create_fn EXCEPT ![t] = AccessSysFn(CreateFnName(target, nm))]
    /\ LET r == CStringNew(nm)
       IN  IF r.ok
           THEN /\ pc' = [pc EXCEPT ![t] = "l30"]
                /\ buf' = [buf EXCEPT ![t] =
                              [bytes |-> r.bytes, live |-> CStringDropPc # "l29"]]
                /\ panic' = panic
           ELSE /\ pc' = [pc EXCEPT ![t] = "panicked"]
                /\ buf' = buf
                /\ panic' = [panic EXCEPT ![t] = [msg |-> ExpectMsg, err |-> r.err]]
    /\ UNCHANGED <<target, libInit, arg, domain, self, acc, ncalls, last, handles,
                   calls>>

\* Line 30, entry: create_fn(c_string.as_ptr()) reads the buffer it is given;
\* a released buffer may hold anything.
NewCallBegin(t) ==
    /\ pc[t] = "l30"
    /\ \E seen \in (IF buf[t].live THEN {buf[t].bytes} ELSE Names) :
          arg' = [arg EXCEPT ![t] = seen]
    /\ calls' = Append(calls, create_fn[t].entry)
    /\ pc' = [pc EXCEPT ![t] = "in_native"]
    /\ ncalls' = [ncalls EXCEPT ![t] = @ + 1]
    /\ UNCHANGED <<target, libInit, name, create_fn, buf, domain, self, acc,
                   panic, last, handles>>

\* Line 30, return: the native library hands back a pointer.
NewCallReturn(t) ==
    /\ pc[t] = "in_native"
    /\ \E a \in NativeResults(libInit) :
          /\ domain' = [domain EXCEPT ![t] = MutPtr(a)]
          /\ pc' = [pc EXCEPT ![t] = AfterNativeReturn(MutPtr(a))]
    /\ UNCHANGED <<target, libInit, name, create_fn, buf, arg, self, acc, ncalls,
                   panic, last, handles, calls>>

\* Lines 31-32: Self(domain) is returned; the locals leave scope.
NewWrap(t) ==
    /\ pc[t] = "l31"
    /\ LET w == SelfCtor(domain[t])
       IN  IF w.kind = "handle"
           THEN /\ handles' = Append(handles,
                       [ptr |-> w.ptr, native |-> domain[t], live |-> TRUE])
                /\ panic' = panic
                /\ pc' = [pc EXCEPT ![t] = "idle"]
           ELSE /\ handles' = handles
                /\ panic' = [panic EXCEPT ![t] = [msg |-> w.msg]]
                /\ pc' = [pc EXCEPT ![t] = "panicked"]
    /\ buf' = [buf EXCEPT ![t] = NoBuf]
    /\ arg' = [arg EXCEPT ![t] = NoArg]
    /\ name' = [name EXCEPT ![t] = <<>>]
    /\ create_fn' = [create_fn EXCEPT ![t] = NoFn]
    /\ domain' = [domain EXCEPT ![t] = NoPtr]
    /\ ncalls' = [ncalls EXCEPT ![t] = 0]
    /\ UNCHANGED <<target, libInit, self, acc, last, calls>>

\* A panic unwinds the calling computation: the payload is reported, the
\* frame of Domain::new is torn down and the thread ends.
Unwind(t) ==
    /\ pc[t] = "panicked"
    /\ pc' = [pc EXCEPT ![t] = "dead"]
    /\ name' = [name EXCEPT ![t] = <<>>]
    /\ create_fn' = [create_fn EXCEPT ![t] = NoFn]
    /\ panic' = [panic EXCEPT ![t] = NoPanic]
    /\ UNCHANGED <<target, libInit, buf, arg, domain, self, acc, ncalls, last,
                   handles, calls>>

----------------------------------------------------------------------------
\* Domain::as_ptr.

\* Mutant: the accessor hides the library's inert value behind null.
AsPtrHideInert(d) ==
    IF d.ptr.addr = 1 THEN [addr |-> NULL, mut |-> FALSE]
    ELSE [addr |-> d.ptr.addr, mut |-> FALSE]

\* self.0.cast_const(): the same address as a *const pointer.
AsPtr(d) == [addr |-> d.ptr.addr, mut |-> FALSE]

\* Mutant: the accessor stores into the field (a cached or normalised value).
AsPtrAccessWrites == "write"

\* as_ptr takes &self and only loads field 0.
AsPtrAccess == "read"

\* Line 35: any thread may borrow a live handle (Domain is Sync).
AsPtrBegin(t, h) ==
    /\ pc[t] = "idle"
    /\ h \in 1..Len(handles)
    /\ handles[h].live
    /\ pc' = [pc EXCEPT ![t] = "as_ptr"]
    /\ self' = [self EXCEPT ![t] = h]
    /\ acc' = [acc EXCEPT ![t] = AsPtrAccess]
    /\ UNCHANGED <<target, libInit, name, create_fn, buf, arg, domain, ncalls,
                   panic, last, handles, calls>>

\* Lines 36-37: the pointer is returned and the borrow ends.
AsPtrReturn(t) ==
    /\ pc[t] = "as_ptr"
    /\ last' = [h |-> self[t], ptr |-> AsPtr(handles[self[t]])]
    /\ pc' = [pc EXCEPT ![t] = "idle"]
    /\ self' = [self EXCEPT ![t] = 0]
    /\ acc' = [acc EXCEPT ![t] = "none"]
    /\ UNCHANGED <<target, libInit, name, create_fn, buf, arg, domain, ncalls,
                   panic, handles, calls>>

----------------------------------------------------------------------------
\* Scope exit of a Domain.

\* Mutant: a Drop impl that tears the native domain down.
DropNativeCallsDestroy(d) == <<"__itt_domain_destroy">>

\* Domain has no Drop impl: dropping it makes no foreign call.
DropNativeCalls(d) == <<>>

\* What is left of a Domain once it is dropped: its slot, with no value.
Dropped == [ptr |-> NoPtr, native |-> NoPtr, live |-> FALSE]

\* A handle nobody borrows goes out of scope.
DropHandle(h) ==
    /\ h \in 1..Len(handles)
    /\ handles[h].live
    /\ \A u \in Threads : self[u] # h
    /\ handles' = [handles EXCEPT ![h] = Dropped]
    /\ calls' = calls \o DropNativeCalls(handles[h])
    /\ UNCHANGED <<target, libInit, pc, name, create_fn, buf, arg, domain, self,
                   acc, ncalls, panic, last>>

----------------------------------------------------------------------------
Init ==
    /\ target \in Targets
    /\ libInit \in BOOLEAN
    /\ pc = [t \in Threads |-> "idle"]
    /\ name = [t \in Threads |-> <<>>]
    /\ create_fn = [t \in Threads |-> NoFn]
    /\ buf = [t \in Threads |-> NoBuf]
    /\ arg = [t \in Threads |-> NoArg]
    /\ domain = [t \in Threads |-> NoPtr]
    /\ self = [t \in Threads |-> 0]
    /\ acc = [t \in Threads |-> "none"]
    /\ ncalls = [t \in Threads |-> 0]
    /\ panic = [t \in Threads |-> NoPanic]
    /\ last = NoRet
    /\ handles = <<>>
    /\ calls = <<>>

Next ==
    \/ \E t \in Threads, nm \in Names : NewEnter(t, nm)
    \/ \E t \in Threads : NewCallBegin(t)
    \/ \E t \in Threads : NewCallReturn(t)
    \/ \E t \in Threads : NewWrap(t)
    \/ \E t \in Threads : Unwind(t)
    \/ \E t \in Threads, h \in 1..MaxCreates : AsPtrBegin(t, h)
    \/ \E t \in Threads : AsPtrReturn(t)
    \/ \E h \in 1..MaxCreates : DropHandle(h)

Spec == Init /\ [][Next]_vars

----------------------------------------------------------------------------
\* Properties.

\* A name with an embedded terminator byte.
HasNul(nm) == \E i \in 1..Len(nm) : nm[i] = 0

InNew(t) == pc[t] \in {"l30", "in_native", "l31"}
AfterCall(t) == pc[t] \in {"in_native", "l31"}

\* One statement of thread t's running Domain::new.
NewStep(t) == NewCallBegin(t) \/ NewCallReturn(t) \/ NewWrap(t)

\* C1: for every name without an embedded 0 byte (the empty name included),
\* Domain::new never aborts: it gets past the conversion, each of its
\* statements can run and leads to the next statement, never to a panic, and
\* the last one returns a new handle holding the native result, whatever
\* pointer the native library returned and whether or not it is initialized.
C1_ValidNameReturnsHandle ==
    /\ [](\A t \in Threads :
             (InNew(t) /\ ~HasNul(name[t])) => ENABLED NewStep(t))
    /\ [][\A t \in Threads :
            (pc[t] = "idle" /\ pc'[t] \notin {"idle", "as_ptr"} /\ ~HasNul(name'[t]))
            => (pc'[t] = "l30" /\ panic'[t] = NoPanic)]_vars
    /\ [][\A t \in Threads :
            (InNew(t) /\ ~HasNul(name[t]) /\ pc'[t] # pc[t])
            => \/ pc'[t] \in {"in_native", "l31"}
               \/ /\ pc[t] = "l31"
                  /\ pc'[t] = "idle"
                  /\ panic'[t] = NoPanic
                  /\ Len(handles') = Len(handles) + 1
                  /\ handles'[Len(handles')].live
                  /\ handles'[Len(handles')].native = domain[t]]_vars

\* A create of the empty name, on an uninitialized library that returned
\* null, is about to return its handle; nothing has aborted.
C1_Witness ==
    /\ ~libInit
    /\ \E t \in Threads :
          pc[t] = "l31" /\ name[t] = <<>> /\ domain[t].addr = NULL
    /\ \A t \in Threads : pc[t] # "panicked"

\* C2: for every name with an embedded 0 byte, Domain::new aborts at the
\* conversion with the CString diagnostic and never gets past it, so it
\* produces no handle.
C2_NulNamePanics ==
    \A t \in Threads :
        HasNul(name[t]) =>
            /\ pc[t] = "panicked"
            /\ panic[t].msg = ZeroByteExpected
            /\ panic[t].err.bytes = name[t]
            /\ name[t][panic[t].err.nul_position + 1] = 0
            /\ buf[t] = NoBuf /\ domain[t] = NoPtr

\* A create of a name with two 0 bytes has aborted; no handle exists.
C2_Witness ==
    \E t \in Threads :
        /\ pc[t] = "panicked"
        /\ Cardinality({i \in 1..Len(name[t]) : name[t][i] = 0}) >= 2
        /\ handles = <<>>

\* C3: the embedded 0 byte is the only abort: a thread has aborted only at
\* the conversion of a name holding a 0 byte (before any foreign call and
\* with no native result in hand), and a create past the conversion never
\* aborts, whatever the library state and the native result.
C3_SoleErrorCondition ==
    \A t \in Threads :
        /\ pc[t] = "panicked" =>
              /\ HasNul(name[t])
              /\ panic[t].msg = ExpectMsg
              /\ domain[t] = NoPtr
        /\ pc[t] \in {"l30", "in_native", "l31"} => ~HasNul(name[t])
        /\ pc[t] = "idle" => panic[t] = NoPanic

\* One create aborted on its name while another, on an uninitialized library
\* that returned null, produced a handle.
C3_Witness ==
    /\ ~libInit
    /\ \E t \in Threads : pc[t] = "panicked"
    /\ \E h \in 1..Len(handles) : handles[h].native.addr = NULL

\* C4: every as_ptr call returns the address the native create call returned
\* when the handle was constructed (null and the inert value included), and
\* the handle holds that address unchanged for as long as it lives.
C4_AsPtrIdentity ==
    /\ \A h \in 1..Len(handles) : handles[h].ptr = handles[h].native
    /\ (last.h # 0 /\ handles[last.h].live) =>
          last.ptr.addr = handles[last.h].native.addr

\* as_ptr returned a null native result and the same handle is being read
\* again.
C4_Witness ==
    /\ last.h # 0
    /\ last.ptr.addr = NULL
    /\ \E t \in Threads : pc[t] = "as_ptr" /\ self[t] = last.h

\* C5: threads inside as_ptr on the same handle only read it: no thread
\* writes the handle's pointer, so no read overlaps a write, and all of them
\* are reading the one value the handle was constructed with.
C5_ConcurrentReadsOnly ==
    \A t \in Threads :
        pc[t] = "as_ptr" =>
            /\ acc[t] = "read"
            /\ AsPtr(handles[self[t]]).addr = handles[self[t]].native.addr
            /\ \A u \in Threads :
                  (pc[u] = "as_ptr" /\ self[u] = self[t]) => acc[u] # "write"

\* Two different threads are inside as_ptr on the same handle at once.
C5_Witness ==
    \E t, u \in Threads :
        t # u /\ pc[t] = "as_ptr" /\ pc[u] = "as_ptr" /\ self[t] = self[u]

\* C6 as stated: every call of create, however it ends, has made exactly one
\* foreign call by the time it ends.
C6_EveryCreateCallsOnce ==
    \A t \in Threads : pc[t] \in {"l31", "panicked"} => ncalls[t] = 1

\* C6: a create that gets past the conversion of its name makes exactly one
\* foreign call (none before line 30, one from then on, never a second one)
\* and a create that aborts on its name makes none; a step of a create leaves
\* the handles that exist, the last accessor result and every other log entry
\* as they are.
C6_OneForeignCall ==
    /\ [](\A t \in Threads :
             /\ pc[t] \in {"l30", "panicked"} => ncalls[t] = 0
             /\ AfterCall(t) => ncalls[t] = 1)
    /\ [](Len(calls) = Len(handles) + Cardinality({t \in Threads : AfterCall(t)}))
    /\ [][\A t \in Threads :
            ((InNew(t) \/ pc'[t] \in {"l30", "in_native", "l31"}) /\ pc'[t] # pc[t])
            => /\ SubSeq(handles', 1, Len(handles)) = handles
               /\ SubSeq(calls', 1, Len(calls)) = calls
               /\ Len(calls') = Len(calls) + (IF pc[t] = "l30" THEN 1 ELSE 0)
               /\ last' = last]_vars

\* A second create got a null result while the first create's handle exists.
C6_Witness ==
    /\ Len(handles) = 1
    /\ \E t \in Threads : pc[t] = "l31" /\ domain[t].addr = NULL /\ ncalls[t] = 1

\* C7: the entry point is fixed by the build target: every foreign call of a
\* Unix build goes through the Unix slot and every call of a Windows build
\* through the narrow Windows slot, whatever the name; the target never
\* changes during a run.
C7_EntryPointByTarget ==
    /\ [](\A i \in 1..Len(calls) :
             /\ target = "unix" => calls[i] = "__itt_domain_create_ptr__3_0"
             /\ target = "windows" => calls[i] = "__itt_domain_createA_ptr__3_0")
    /\ [](\A t \in Threads :
             InNew(t) => create_fn[t].entry =
                 (IF target = "unix" THEN "__itt_domain_create_ptr__3_0"
                  ELSE "__itt_domain_createA_ptr__3_0"))
    /\ [][target' = target]_vars

\* A Windows build has made two foreign calls, one of them for the empty name.
C7_Witness ==
    /\ target = "windows"
    /\ Len(calls) = 2
    /\ \E t \in Threads : pc[t] = "in_native" /\ name[t] = <<>>

\* C8: a handle's pointer never changes between construction and drop, a
\* dropped handle stays dropped, and the only foreign calls ever made are
\* create calls: a drop makes none.
C8_NoMutationNoTeardown ==
    /\ [](\A i \in 1..Len(calls) : calls[i] \in {UnixEntry, WindowsEntry})
    /\ [][/\ \A h \in 1..Len(handles) :
                /\ h <= Len(handles')
                /\ handles'[h].live => handles'[h].ptr = handles[h].ptr
                /\ ~handles[h].live => ~handles'[h].live
                /\ (handles[h].live /\ ~handles'[h].live) => calls' = calls
          /\ Len(handles') >= Len(handles)]_vars

\* A handle that was read through as_ptr has been dropped, and the foreign
\* calls made are the creates alone.
C8_Witness ==
    /\ last.h # 0
    /\ ~handles[last.h].live
    /\ Len(calls) = Len(handles)

\* C9: validation precedes the foreign call: a create that aborted on its
\* name has made no foreign call, and the native entry point is only ever
\* given the whole name followed by the terminator.
C9_ValidateBeforeCall ==
    \A t \in Threads :
        /\ pc[t] = "panicked" => (ncalls[t] = 0 /\ arg[t] = NoArg)
        /\ AfterCall(t) =>
              /\ arg[t] = name[t] \o <<0>>
              /\ MemChr0(arg[t], 1) = Len(name[t]) + 1

\* A create aborted on its name; no foreign call has been made at all.
C9_Witness ==
    /\ calls = <<>>
    /\ \E t \in Threads : pc[t] = "panicked" /\ HasNul(name[t]) /\ ncalls[t] = 0

\* C10: from before the foreign call until after it has returned, c_string's
\* buffer is allocated and holds exactly the name followed by one terminator,
\* the only 0 byte in it; the native function finds those bytes; outside a
\* create the buffer is released.
C10_BufferLiveAcrossCall ==
    \A t \in Threads :
        /\ pc[t] \in {"l30", "in_native", "l31"} =>
              /\ buf[t].live
              /\ buf[t].bytes = Append(name[t], 0)
              /\ \A i \in 1..Len(buf[t].bytes) :
                    buf[t].bytes[i] = 0 <=> i = Len(buf[t].bytes)
        /\ AfterCall(t) => arg[t] = buf[t].bytes
        /\ pc[t] \in {"idle", "as_ptr"} => ~buf[t].live

\* The foreign call for a name of the longest length has returned and the
\* buffer is still allocated.
C10_Witness ==
    \E t \in Threads :
        pc[t] = "l31" /\ Len(name[t]) = MaxLen /\ buf[t].live

====
